---- MODULE Spec2Model ----
(***************************************************************************)
(* Model of heavyball's ForeachCachedPSGDKron (cached_psgd_kron.py) and of *)
(* the helpers of utils.py it relies on.                                   *)
(*                                                                         *)
(* Numbers.  Floating point values are held in fixed point:                *)
(*   - probabilities and random draws in millionths (ProbOne = 1.0);       *)
(*   - entries of Q in units of 1/QOne, entries of Q_cache (products of    *)
(*     two entries of Q) in units of 1/QOne^2;                             *)
(*   - gradients, momentum buffers and parameters as plain integers.      *)
(* Tensors are records [shape, data]; data maps every index tuple of the  *)
(* shape to an entry.  Einsum expressions are records [ins, out] of letter *)
(* sequences; a letter is its position in string.ascii_lowercase +         *)
(* string.ascii_uppercase (0 = 'a', 13 = 'n', 26 = 'A').                   *)
(***************************************************************************)
EXTENDS Integers, Sequences, FiniteSets, TLC

VARIABLES
    pc,          \* position of the optimizer: "new", "failed", "idle" or a phase of _step
    cfg,         \* constructor arguments / the group's defaults
    err,         \* the exception raised by the last constructor or step call
    prob_step,   \* self._prob_step
    group_step,  \* group['step']
    do_update,   \* the refresh decision of the running step
    calls,       \* number of _step calls so far
    rng_calls,   \* number of self.rng.random() draws so far (the position of self.rng)
    sched_calls, \* evaluations of the schedule by the running (or last) step
    decisions,   \* refresh decisions drawn by the running (or last) step
    grads,       \* p.grad of every parameter (NoGrad or a tensor)
    pdata,       \* p.data of every parameter
    state,       \* self.state: per-parameter record of optimizer state
    vals,        \* the list built by the gather loop of _step
    loop_i,      \* index of the per-parameter loop of _step
    new,         \* the preconditioned gradient computed by CacheApply
    grad_list,   \* the local grad_list of _step after the loop
    committed,   \* arguments of the last update_param_ call
    trace,       \* phases executed by the running step, in order
    engine,      \* arguments of the last balance and update-engine calls (lines 134-135)
    fin,         \* input of the pure function applied in SpecQ, SpecSched and SpecCache
    fout         \* its result

vars == <<pc, cfg, err, prob_step, group_step, do_update, calls, rng_calls, sched_calls,
          decisions, grads, pdata, state, vals, loop_i, new, grad_list, committed, trace,
          engine, fin, fout>>

stepVars == <<pc, cfg, err, prob_step, group_step, do_update, calls, rng_calls, sched_calls,
              decisions, grads, pdata, state, vals, loop_i, new, grad_list, committed, trace,
              engine>>

(***************************************************************************)
(* Bounds of the model                                                     *)
(***************************************************************************)
QMaxDim == 3         \* init_Q_exprs inputs: largest axis size
QMaxRank == 3        \* init_Q_exprs inputs: largest rank enumerated exhaustively
MaxSchedStep == 4200 \* schedule inputs: steps 0..MaxSchedStep
CMaxVal == 1         \* SpecCache: the entries of Q range over 0..CMaxVal
MaxCalls == 2        \* number of _step calls followed
GradUnit == 10       \* the entries of a raw gradient are multiples of GradUnit

(***************************************************************************)
(* Program constants                                                       *)
(***************************************************************************)
MaxLetters == 13     \* init_Q_exprs: ranks above 13 run out of letters
UpperOffset == 26    \* letters[i + 26] is the upper case of letters[i]
MidOffset == 13      \* letters[i + 13]
QOne == 10           \* fixed-point 1.0 of a Q entry (precond_init_scale = 1.0)
MaxProb == 1000000   \* max_prob = 1.0, in millionths
MinProb == 30000     \* min_prob = 0.03, in millionths
FlatStart == 250     \* flat_start
Milli == 1000        \* 1 / decay: decay = 0.001 per step
PrecondLrInv == 10   \* 1 / precond_lr: precond_lr = 0.1
BalanceProb == 10000 \* balance: rng.random() > 0.01 returns, in millionths
BetaOne == 10        \* beta is held in tenths: the test beta < 1.0
ClipKnee == 135000   \* trust_region_clip_(x, 0.9, 1.5): 0.9 * 1.5 = 1.35, in 100000ths
MaxSizeTriangular == 2048  \* max_size_triangular default
MinNdimTriangular == 2     \* min_ndim_triangular default
WarmupSteps == 1     \* warmup_steps default
HalfProb == MaxProb \div 2  \* a constant preconditioner_update_probability of 0.5

(***************************************************************************)
(* Generic helpers                                                         *)
(***************************************************************************)
\* an absent value (Python's None, a missing key); present values are records
NoVal == [absent |-> TRUE]

\* no exception
NoErr == "none"

RECURSIVE SumSeq(_)
SumSeq(s) == IF s = <<>> THEN 0 ELSE Head(s) + SumSeq(Tail(s))

RECURSIVE ProdSeq(_)
ProdSeq(s) == IF s = <<>> THEN 1 ELSE Head(s) * ProdSeq(Tail(s))

RECURSIVE SumSet(_, _)
SumSet(S, f) ==
    IF S = {} THEN 0
    ELSE LET x == CHOOSE y \in S : TRUE IN f[x] + SumSet(S \ {x}, f)

Range(s) == {s[i] : i \in DOMAIN s}

RECURSIVE Flatten(_)
Flatten(ss) == IF ss = <<>> THEN <<>> ELSE Head(ss) \o Flatten(Tail(ss))

Abs(x) == IF x < 0 THEN -x ELSE x

Max2(a, b) == IF a >= b THEN a ELSE b

Min2(a, b) == IF a <= b THEN a ELSE b

(***************************************************************************)
(* Tensors                                                                 *)
(***************************************************************************)
RECURSIVE Idx(_)
Idx(shape) ==
    IF shape = <<>> THEN {<<>>}
    ELSE {<<i>> \o r : i \in 1..Head(shape), r \in Idx(Tail(shape))}

Full(shape, v) == [shape |-> shape, data |-> [ix \in Idx(shape) |-> v]]

\* torch.ones(size) * scale
OnesVec(size, scale) == Full(<<size>>, scale)

\* torch.eye(size) * scale
Eye(size, scale) ==
    [shape |-> <<size, size>>,
     data |-> [ix \in Idx(<<size, size>>) |-> IF ix[1] = ix[2] THEN scale ELSE 0]]

Ndim(t) == Len(t.shape)

(***************************************************************************)
(* torch.einsum on expressions [ins, out].  An operand whose number of     *)
(* subscripts differs from its number of dimensions makes torch raise.     *)
(***************************************************************************)
EinsumOk(expr, ops) ==
    /\ Len(expr.ins) = Len(ops)
    /\ \A k \in 1..Len(ops) : Len(expr.ins[k]) = Ndim(ops[k])
    /\ \A l \in Range(expr.out) : \E k \in 1..Len(ops) : l \in Range(expr.ins[k])

EinsumLetters(expr) == UNION {Range(expr.ins[k]) : k \in 1..Len(expr.ins)}

\* the size of the axis a letter names (taken from its first occurrence)
LetterDim(expr, ops, l) ==
    LET k == CHOOSE k \in 1..Len(ops) :
                 /\ l \in Range(expr.ins[k])
                 /\ \A k2 \in 1..(k - 1) : l \notin Range(expr.ins[k2])
        j == CHOOSE j \in 1..Len(expr.ins[k]) : expr.ins[k][j] = l
    IN ops[k].shape[j]

\* all assignments of an index to each letter of S that extend env
RECURSIVE Assignments(_, _, _, _)
Assignments(S, expr, ops, env) ==
    IF S = {} THEN {env}
    ELSE LET l == CHOOSE x \in S : TRUE
         IN UNION {Assignments(S \ {l}, expr, ops, env @@ (l :> i)) :
                       i \in 1..LetterDim(expr, ops, l)}

EinsumTerm(expr, ops, a) ==
    ProdSeq([k \in 1..Len(ops) |->
                ops[k].data[[j \in 1..Len(expr.ins[k]) |-> a[expr.ins[k][j]]]]])

Einsum(expr, ops) ==
    LET outShape == [j \in 1..Len(expr.out) |-> LetterDim(expr, ops, expr.out[j])]
        summed == EinsumLetters(expr) \ Range(expr.out)
        OutEnv(ix) == [l \in Range(expr.out) |->
                          ix[CHOOSE j \in 1..Len(expr.out) : expr.out[j] = l]]
        Entry(ix) ==
            LET as == Assignments(summed, expr, ops, OutEnv(ix))
            IN SumSet(as, [a \in as |-> EinsumTerm(expr, ops, a)])
    IN [shape |-> outShape, data |-> [ix \in Idx(outShape) |-> Entry(ix)]]

(***************************************************************************)
(* init_Q_exprs (utils.py)                                                 *)
(***************************************************************************)
\* a faulty RevSortedHeads: the [::-1] is missing, the head is a smallest axis
RevSortedHeads_Ascending(shape) ==
    {i \in 1..Len(shape) : \A j \in 1..Len(shape) : shape[i] <= shape[j]}

\* line 489: what np.argsort(shape)[::-1][0] can be.  np.argsort sorts with its default
\* kind, which numpy does not promise to be stable: the order of equal sizes is the sort
\* routine's (insertion sort for arrays this short puts the last of them at the head of
\* the reversed order; a vectorised routine may put another), so the head is any axis
\* of the largest size.
RevSortedHeads(shape) ==
    {i \in 1..Len(shape) : \A j \in 1..Len(shape) : shape[j] <= shape[i]}

ValidModes == {"None", "one_diag", "all_diag"}

\* the outcomes of the sort that init_Q_exprs can see: it sorts under one_diag only
SortHeads(shape, memory_save_mode) ==
    IF memory_save_mode = "one_diag" /\ Len(shape) >= 1 /\ Len(shape) <= MaxLetters
    THEN RevSortedHeads(shape)
    ELSE {0}

\* lines 486-496: the axes the memory-save policy forces diagonal; head is
\* rev_sorted_dims[0]
DimDiag(shape, memory_save_mode, head) ==
    IF memory_save_mode = "None" THEN [i \in 1..Len(shape) |-> FALSE]
    ELSE IF memory_save_mode = "one_diag"
         THEN [i \in 1..Len(shape) |-> i = head]
         ELSE [i \in 1..Len(shape) |-> TRUE]

\* a faulty UseDiag: the size test is >= instead of >
UseDiag_SizeGe(size, rank, max_size, min_ndim_triangular, dim_d) ==
    size = 1 \/ size >= max_size \/ rank < min_ndim_triangular \/ dim_d

\* line 503: the test that sends an axis to the diagonal branch
UseDiag(size, rank, max_size, min_ndim_triangular, dim_d) ==
    size = 1 \/ size > max_size \/ rank < min_ndim_triangular \/ dim_d

\* line 484: scale ** (1 / len(shape)).  The optimizer passes precond_init_scale = 1.0
\* only (cached_psgd_kron.py line 62), whose every root is 1.0
ScaleRoot(scale, rank) == scale

\* letters[j] for every axis j, with axis i replaced by letters[i + off]
Piece(rank, i, off) == [j \in 1..rank |-> IF j = i THEN (i - 1) + off ELSE j - 1]

\* a faulty InitQFactor: the diagonal branch builds a matrix too
InitQFactor_AlwaysEye(size, diag, scale) == Eye(size, scale)

InitQFactor(size, diag, scale) == IF diag THEN OnesVec(size, scale) ELSE Eye(size, scale)

InitExprA(rank, diag) ==
    [ins |-> [i \in 1..rank |-> IF diag[i] THEN <<i - 1>> ELSE <<i - 1, (i - 1) + MidOffset>>]
             \o << [i \in 1..rank |-> IF diag[i] THEN i - 1 ELSE (i - 1) + MidOffset] >>,
     out |-> [i \in 1..rank |-> i - 1]]

InitExprG(rank, diag, i) ==
    IF diag[i]
    THEN [ins |-> <<Piece(rank, i, MidOffset), Piece(rank, i, MidOffset)>>,
          out |-> <<(i - 1) + MidOffset>>]
    ELSE [ins |-> <<Piece(rank, i, MidOffset), Piece(rank, i, UpperOffset)>>,
          out |-> <<(i - 1) + MidOffset, (i - 1) + UpperOffset>>]

InitExprP(rank, diag) ==
    [ins |-> [i \in 1..rank |-> IF diag[i] THEN <<(i - 1) + MidOffset>>
                                 ELSE <<i - 1, (i - 1) + MidOffset>>]
             \o [i \in 1..rank |-> IF diag[i] THEN <<(i - 1) + MidOffset>>
                                    ELSE <<i - 1, (i - 1) + UpperOffset>>]
             \o << [i \in 1..rank |-> IF diag[i] THEN (i - 1) + MidOffset
                                       ELSE (i - 1) + UpperOffset] >>,
     out |-> [i \in 1..rank |-> (i - 1) + MidOffset]]

\* the result: [err, Q, exprs] with exprs = [A, Gs, P]; on a raise Q and exprs are NoVal.
\* head is the outcome of the sort of line 489
init_Q_exprs(shape, scale, max_size, min_ndim_triangular, memory_save_mode, head) ==
    LET rank == Len(shape) IN
    IF rank = 0
    THEN [err |-> NoErr, Q |-> <<Full(<<>>, scale)>>,
          exprs |-> [A |-> [ins |-> << <<>>, <<>> >>, out |-> <<>>],
                     Gs |-> << [ins |-> << <<>>, <<>> >>, out |-> <<>>] >>,
                     P |-> [ins |-> << <<>>, <<>>, <<>> >>, out |-> <<>>]]]
    ELSE IF rank > MaxLetters
    THEN [err |-> "ValueError: Einstein runs out of letters", Q |-> NoVal, exprs |-> NoVal]
    ELSE IF memory_save_mode \notin ValidModes
    THEN [err |-> "ValueError: Invalid memory_save_mode", Q |-> NoVal, exprs |-> NoVal]
    ELSE
    LET s == ScaleRoot(scale, rank)
        dim_diag == DimDiag(shape, memory_save_mode, head)
        diag == [i \in 1..rank |->
                    UseDiag(shape[i], rank, max_size, min_ndim_triangular, dim_diag[i])]
    IN [err |-> NoErr,
        Q |-> [i \in 1..rank |-> InitQFactor(shape[i], diag[i], s)],
        exprs |-> [A |-> InitExprA(rank, diag),
                   Gs |-> [i \in 1..rank |-> InitExprG(rank, diag, i)],
                   P |-> InitExprP(rank, diag)]]


(***************************************************************************)
(* Specification SpecQ: init_Q_exprs applied to bounded inputs             *)
(***************************************************************************)
\* the orchestrator's variables in the specifications of the pure functions
MainOff ==
    /\ pc = "off" /\ cfg = NoVal /\ err = NoErr
    /\ prob_step = 0 /\ group_step = 0 /\ do_update = FALSE
    /\ calls = 0 /\ rng_calls = 0 /\ sched_calls = 0 /\ decisions = 0
    /\ grads = <<>> /\ pdata = <<>> /\ state = <<>> /\ vals = <<>>
    /\ loop_i = 0 /\ new = NoVal /\ grad_list = NoVal /\ committed = NoVal
    /\ trace = <<>> /\ engine = NoVal

RECURSIVE ShapesOfRank(_, _)
ShapesOfRank(r, d) ==
    IF r = 0 THEN {<<>>}
    ELSE {<<n>> \o t : n \in 1..d, t \in ShapesOfRank(r - 1, d)}

QShapes == UNION {ShapesOfRank(r, QMaxDim) : r \in 0..QMaxRank}

\* shapes at and just past the letter budget
LongShapes ==
    {[i \in 1..MaxLetters |-> 1],
     [i \in 1..MaxLetters |-> IF i = 1 THEN 2 ELSE 1],
     [i \in 1..(MaxLetters + 1) |-> 1]}

QInputs ==
    [fn : {"init_Q_exprs"},
     shape : QShapes \cup LongShapes,
     max_size : 1..QMaxDim,
     min_ndim : 1..QMaxRank,
     mode : ValidModes \cup {"bogus"}]

InitQ ==
    /\ MainOff
    /\ fin \in QInputs
    /\ fout = NoVal

CallInitQ ==
    /\ fin.fn = "init_Q_exprs"
    /\ fout = NoVal
    /\ \E head \in SortHeads(fin.shape, fin.mode) :
          LET r == init_Q_exprs(fin.shape, QOne, fin.max_size, fin.min_ndim, fin.mode, head)
          IN fout' = [err |-> r.err, Q |-> r.Q, exprs |-> r.exprs, head |-> head]
    /\ UNCHANGED <<fin, stepVars>>

NextQ == CallInitQ

SpecQ == InitQ /\ [][NextQ]_vars

\* the call of init_Q_exprs has returned a factor list
QReturned == fin # NoVal /\ fin.fn = "init_Q_exprs" /\ fout # NoVal /\ fout.err = NoErr

IsDiagFactor(q, size) == q.shape = <<size>>

IsTriFactor(q, size) == q.shape = <<size, size>>

\* C7: for every shape of rank 0..13 and every valid policy the call returns; the factor
\* list has one factor per axis (one factor for rank 0); the factor of an axis that took
\* the diagonal branch is 1-D of the axis size, that of any other axis is square of the
\* axis size, every factor's dimension agrees with its subscripts in exprA; and exprGs
\* has one expression per factor.
C7_FactorShapes ==
    (fin # NoVal /\ fin.fn = "init_Q_exprs" /\ fout # NoVal
        /\ Len(fin.shape) <= MaxLetters /\ fin.mode \in ValidModes)
    => /\ fout.err = NoErr
       /\ Len(fout.Q) = (IF Len(fin.shape) = 0 THEN 1 ELSE Len(fin.shape))
       /\ Len(fout.exprs.Gs) = Len(fout.Q)
       /\ Len(fin.shape) = 0 => fout.Q[1].shape = <<>>
       /\ \A i \in 1..Len(fin.shape) :
             LET d == UseDiag(fin.shape[i], Len(fin.shape), fin.max_size, fin.min_ndim,
                              DimDiag(fin.shape, fin.mode, fout.head)[i])
             IN /\ d => IsDiagFactor(fout.Q[i], fin.shape[i])
                /\ ~d => IsTriFactor(fout.Q[i], fin.shape[i])
                /\ Len(fout.exprs.A.ins[i]) = Ndim(fout.Q[i])
                /\ Len(fout.exprs.Gs[i].out) = Ndim(fout.Q[i])

C7_Witness ==
    /\ QReturned
    /\ fin.shape = <<3, 1, 2>> /\ fin.mode = "one_diag" /\ fin.max_size = 2
    /\ fin.min_ndim = 2
    /\ Len(fout.Q) = 3

\* C8 as stated: an axis is triangular iff size <= max_size, rank >= min_ndim_triangular
\* and the policy does not force it diagonal, for every size including 1.
C8_Original ==
    QReturned =>
        \A i \in 1..Len(fin.shape) :
            IsTriFactor(fout.Q[i], fin.shape[i])
            <=> (/\ fin.shape[i] <= fin.max_size
                 /\ Len(fin.shape) >= fin.min_ndim
                 /\ ~DimDiag(fin.shape, fin.mode, fout.head)[i])

\* C8 amended: an axis is triangular iff its size is not 1 and size <= max_size and
\* rank >= min_ndim_triangular and the policy does not force it diagonal; every other
\* axis (an axis of size 1 always) is diagonal.
C8_TriangularIff ==
    QReturned =>
        \A i \in 1..Len(fin.shape) :
            /\ IsTriFactor(fout.Q[i], fin.shape[i])
               <=> (/\ fin.shape[i] # 1
                    /\ fin.shape[i] <= fin.max_size
                    /\ Len(fin.shape) >= fin.min_ndim
                    /\ ~DimDiag(fin.shape, fin.mode, fout.head)[i])
            /\ ~IsTriFactor(fout.Q[i], fin.shape[i]) => IsDiagFactor(fout.Q[i], fin.shape[i])

C8_Witness ==
    /\ QReturned
    /\ fin.shape = <<1, 2>> /\ fin.mode = "None" /\ fin.max_size = 2 /\ fin.min_ndim = 2
    /\ IsDiagFactor(fout.Q[1], 1) /\ IsTriFactor(fout.Q[2], 2)

\* one_diag with nothing else forcing a diagonal
OneDiagCase ==
    /\ QReturned
    /\ fin.mode = "one_diag"
    /\ Len(fin.shape) >= 1
    /\ Len(fin.shape) >= fin.min_ndim
    /\ \A i \in 1..Len(fin.shape) : fin.shape[i] <= fin.max_size /\ fin.shape[i] # 1

DiagAxes == {i \in 1..Len(fin.shape) : IsDiagFactor(fout.Q[i], fin.shape[i])}

IsLargest(i) == \A j \in 1..Len(fin.shape) : fin.shape[j] <= fin.shape[i]

\* C9 as stated: exactly one axis is diagonal, it has the largest size, among equal
\* largest axes it is the first, and all other axes are triangular.
C9_Original ==
    OneDiagCase =>
        \E i \in 1..Len(fin.shape) :
            /\ DiagAxes = {i}
            /\ IsLargest(i)
            /\ \A j \in 1..(i - 1) : fin.shape[j] < fin.shape[i]
            /\ \A j \in 1..Len(fin.shape) : j # i => IsTriFactor(fout.Q[j], fin.shape[j])

\* C9 amended: exactly one axis is diagonal, it has the largest size and all other
\* axes are triangular; which of several equal largest axes it is, is the sort's choice.
C9_OneDiagLargest ==
    OneDiagCase =>
        \E i \in 1..Len(fin.shape) :
            /\ DiagAxes = {i}
            /\ IsLargest(i)
            /\ \A j \in 1..Len(fin.shape) : j # i => IsTriFactor(fout.Q[j], fin.shape[j])

C9_Witness ==
    /\ OneDiagCase
    /\ fin.shape = <<3, 3, 2>>
    /\ DiagAxes = {2}


(***************************************************************************)
(* precond_update_prob_schedule (utils.py)                                 *)
(***************************************************************************)
\* x * exp(-decay) and x * exp(+decay) for decay = 0.001, rounded down.  These are
\* functions, not operators, so that TLC evaluates their argument before the call.
Shrink1[x \in Nat] == (x * (Milli - 1)) \div Milli

Grow1[x \in Nat] == (x * (Milli + 1)) \div Milli

ShrinkBy1[n \in Nat, x \in Nat] == IF n = 0 THEN x ELSE Shrink1[ShrinkBy1[n - 1, x]]

Shrink10[x \in Nat] == ShrinkBy1[10, x]

ShrinkBy10[n \in Nat, x \in Nat] == IF n = 0 THEN x ELSE Shrink10[ShrinkBy10[n - 1, x]]

Shrink100[x \in Nat] == ShrinkBy10[10, x]

ShrinkBy100[n \in Nat, x \in Nat] == IF n = 0 THEN x ELSE Shrink100[ShrinkBy100[n - 1, x]]

GrowBy1[n \in Nat, x \in Nat] == IF n = 0 THEN x ELSE Grow1[GrowBy1[n - 1, x]]

Grow10[x \in Nat] == GrowBy1[10, x]

GrowBy10[n \in Nat, x \in Nat] == IF n = 0 THEN x ELSE Grow10[GrowBy10[n - 1, x]]

\* max_prob * math.exp(-decay * m), in millionths: m multiplications by exp(-decay)
\* (by exp(decay) when m is negative)
ExpDecay(max_prob, m) ==
    IF m >= 0
    THEN ShrinkBy1[m % 10, ShrinkBy10[(m \div 10) % 10, ShrinkBy100[m \div 100, max_prob]]]
    ELSE GrowBy1[(-m) % 10, GrowBy10[(-m) \div 10, max_prob]]

\* _schedule(n) of precond_update_prob_schedule(max_prob, min_prob, decay=0.001, flat_start)
Schedule(max_prob, min_prob, flat_start, n) ==
    IF n < flat_start THEN max_prob
    ELSE LET n1 == n - flat_start
             prob == ExpDecay(max_prob, n1 - flat_start)
         IN Max2(min_prob, Min2(max_prob, prob))

DefaultSchedule(n) == Schedule(MaxProb, MinProb, FlatStart, n)

(***************************************************************************)
(* Specification SpecSched: the default schedule evaluated at steps 0, 1,..*)
(***************************************************************************)
InitSched ==
    /\ MainOff
    /\ fin = [fn |-> "schedule", n |-> 0]
    /\ fout = NoVal

CallSchedule ==
    /\ fin.fn = "schedule"
    /\ fout = NoVal
    /\ fout' = [p |-> DefaultSchedule(fin.n), p_next |-> DefaultSchedule(fin.n + 1)]
    /\ UNCHANGED <<fin, stepVars>>

NextScheduleStep ==
    /\ fin.fn = "schedule"
    /\ fout # NoVal
    /\ fin.n < MaxSchedStep
    /\ fin' = [fin EXCEPT !.n = @ + 1]
    /\ fout' = NoVal
    /\ UNCHANGED stepVars

NextSched == CallSchedule \/ NextScheduleStep

SpecSched == InitSched /\ [][NextSched]_vars

\* C4: the default schedule is 1.0 for every step < 250, strictly decreasing from step
\* 250 onward, and within [0.03, 1.0] at every step.
C4_Schedule ==
    (fin # NoVal /\ fin.fn = "schedule" /\ fout # NoVal)
    => /\ fin.n < FlatStart => fout.p = MaxProb
       /\ fin.n >= FlatStart => fout.p_next < fout.p
       /\ MinProb <= fout.p /\ fout.p <= MaxProb


(***************************************************************************)
(* The preconditioner cache (cached_psgd_kron.py) and psgd_precond_grad    *)
(***************************************************************************)
\* q.conj(): the tensors are real
Conj(q) == q

\* q.T of a matrix
Transpose(q) ==
    [shape |-> <<q.shape[2], q.shape[1]>>,
     data |-> [ix \in Idx(<<q.shape[2], q.shape[1]>>) |-> q.data[<<ix[2], ix[1]>>]]]

\* torch.matmul of two matrices
MatMul(a, b) ==
    [shape |-> <<a.shape[1], b.shape[2]>>,
     data |-> [ix \in Idx(<<a.shape[1], b.shape[2]>>) |->
                  SumSeq([k \in 1..a.shape[2] |-> a.data[<<ix[1], k>>] * b.data[<<k, ix[2]>>]])]]

\* torch.mul of two tensors of one shape
Mul(a, b) == [shape |-> a.shape, data |-> [ix \in Idx(a.shape) |-> a.data[ix] * b.data[ix]]]

\* a faulty CacheEntry: q q^H instead of q^H q
CacheEntry_Swapped(q) ==
    IF Ndim(q) = 2 THEN MatMul(q, Conj(Transpose(q))) ELSE Mul(Conj(q), q)

\* lines 137-140: the cache entry of one factor
CacheEntry(q) ==
    IF Ndim(q) = 2 THEN MatMul(Conj(Transpose(q)), q) ELSE Mul(Conj(q), q)

\* lines 136-140: the cache rebuilt from the factor list q
RebuildCache(q) == [k \in 1..Len(q) |-> CacheEntry(q[k])]

\* einsum_base: ascii_lowercase + ascii_uppercase; Upper is str.upper on a letter
Upper(c) == IF c < UpperOffset THEN c + UpperOffset ELSE c

\* lines 102-106: the combined cache expression
CacheExpr(Q, gshape) ==
    LET expr == [k \in 1..Len(Q) |->
                    IF Ndim(Q[k]) = 2 THEN <<Upper(k - 1), k - 1>> ELSE <<k - 1>>]
        grad_expr == [j \in 1..Len(gshape) |-> j - 1]
        InExpr(c) == \E k \in 1..Len(expr) : c \in Range(expr[k])
        out_expr == [j \in 1..Len(gshape) |->
                        IF InExpr(Upper(grad_expr[j])) THEN Upper(grad_expr[j])
                        ELSE grad_expr[j]]
    IN [ins |-> expr \o <<grad_expr>>, out |-> out_expr]

\* line 129: torch.einsum(cache_expr, *cached_q, ea)
CacheApply(cache_expr, cached_q, ea) == Einsum(cache_expr, cached_q \o <<ea>>)

\* utils.py psgd_precond_grad: einsum(exprP, *[q.conj() for q in Q], *Q, G)
psgd_precond_grad(Q, exprs, G) ==
    Einsum(exprs.P, [k \in 1..Len(Q) |-> Conj(Q[k])] \o Q \o <<G>>)

(***************************************************************************)
(* Specification SpecCache: the cache applied to a 2-D gradient            *)
(***************************************************************************)
CVals == 0..CMaxVal

\* entries of the gradient
GVals == {0, 1}

CShapes == {<<1, 1>>, <<1, 2>>, <<2, 1>>, <<2, 2>>}

\* every tensor of a shape with entries in vs
TensorsOver(shape, vs) == {[shape |-> shape, data |-> d] : d \in [Idx(shape) -> vs]}

\* every factor of the kind of q0 (1-D, or upper-triangular 2-D) with entries in CVals
FactorsLike(q0) ==
    IF Ndim(q0) = 2
    THEN {t \in TensorsOver(q0.shape, CVals) :
             \A ix \in Idx(q0.shape) : ix[1] > ix[2] => t.data[ix] = 0}
    ELSE TensorsOver(q0.shape, CVals)

\* a 2-D shape, a policy, the expressions init_Q_exprs builds for them, any Q of the
\* kinds it builds and any gradient
InitCache ==
    /\ MainOff
    /\ \E shape \in CShapes, mode \in ValidModes :
        \E head \in SortHeads(shape, mode) :
          LET r == init_Q_exprs(shape, QOne, 2, 2, mode, head)
          IN \E q1 \in FactorsLike(r.Q[1]), q2 \in FactorsLike(r.Q[2]),
                g \in TensorsOver(shape, GVals) :
                fin = [fn |-> "cache", shape |-> shape, mode |-> mode, exprs |-> r.exprs,
                       Q |-> <<q1, q2>>, G |-> g]
    /\ fout = NoVal

\* Init's cache expression, the rebuild of the cache from Q, and both ways to
\* precondition G
CallCache ==
    /\ fin.fn = "cache"
    /\ fout = NoVal
    /\ LET cache_expr == CacheExpr(fin.Q, fin.shape)
           Q_cache == RebuildCache(fin.Q)
       IN fout' = [Q_cache |-> Q_cache,
                   cached |-> CacheApply(cache_expr, Q_cache, fin.G),
                   full |-> psgd_precond_grad(fin.Q, fin.exprs, fin.G)]
    /\ UNCHANGED <<fin, stepVars>>

NextCache == CallCache

SpecCache == InitCache /\ [][NextCache]_vars

\* C10: for a 2-D tensor and any Q, contracting the cache built from Q with G through
\* the combined cache expression gives the tensor psgd_precond_grad(Q, exprs, G) gives.
C10_CacheEqualsPrecond ==
    (fin # NoVal /\ fin.fn = "cache" /\ fout # NoVal) => fout.cached = fout.full

\* a case with two triangular, non-commuting factors and a non-symmetric gradient
C10_Witness ==
    /\ fin # NoVal /\ fin.fn = "cache" /\ fout # NoVal
    /\ fin.shape = <<2, 2>> /\ fin.mode = "None"
    /\ fin.Q[1].data[<<1, 2>>] = 1 /\ fin.Q[1].data[<<1, 1>>] = 1 /\ fin.Q[1].data[<<2, 2>>] = 1
    /\ fin.Q[2].data[<<1, 2>>] = 1 /\ fin.Q[2].data[<<1, 1>>] = 1 /\ fin.Q[2].data[<<2, 2>>] = 0
    /\ fin.G.data[<<1, 2>>] = 1 /\ fin.G.data[<<2, 1>>] = 0
    /\ fout.Q_cache[1].data[<<2, 2>>] = 2
    /\ fout.cached = fout.full


(***************************************************************************)
(* get_orthogonal_matrix (utils.py:244-290)                                *)
(*                                                                         *)
(* A tensor is its dtype and device here: the eigenvectors themselves come *)
(* from torch.linalg.eigh.  fin holds the argument mat, fout the frame of  *)
(* the running call: its locals, its position and a log of the attempts.   *)
(***************************************************************************)
MaxMats == 2

OrthDtypes == {"float32", "bfloat16", "float64"}

OrthDevices == {"cuda", "cpu"}

\* an entry of mat whose len() is 0
EmptyMat == [len |-> 0, dtype |-> "none", device |-> "none"]

OrthMats == {EmptyMat} \cup [len : {2}, dtype : OrthDtypes, device : OrthDevices]

\* utils.py promote, on the dtype of a tensor
promote_dtype(d) == IF d \in {"bfloat16", "float16"} THEN "float32" ELSE d

\* line 268: for modifier in (None, torch.double, 'cpu')
Modifiers == <<"None", "double", "cpu">>

\* lines 269-270: m = m.to(modifier) if modifier is not None
To(m, modifier) ==
    CASE modifier = "None" -> m
      [] modifier = "double" -> [m EXCEPT !.dtype = "float64"]
      [] modifier = "cpu" -> [m EXCEPT !.device = "cpu"]

\* what torch.linalg.eigh and the conversion of its result can do (lines 271-278)
AttemptOutcomes == {"ok", "OutOfMemoryError", "RuntimeError"}

\* the frame at the entry of the call
OrthEntry ==
    [pc |-> "promote", i |-> 1, matrix |-> <<>>, final |-> <<>>,
     float_data |-> "unbound", original_type |-> "unbound", original_device |-> "unbound",
     m |-> EmptyMat, device |-> "unbound", dtype |-> "unbound", k |-> 1, Q |-> EmptyMat,
     log |-> <<>>, err |-> NoErr]

InitOrth ==
    /\ MainOff
    /\ \E n \in 0..MaxMats : fin \in [fn : {"get_orthogonal_matrix"}, mat : [1..n -> OrthMats]]
    /\ fout = OrthEntry

\* lines 249-259, one iteration of the first loop
OrthPromote ==
    /\ fin.fn = "get_orthogonal_matrix" /\ fout.pc = "promote"
    /\ fout.i <= Len(fin.mat)
    /\ LET m == fin.mat[fout.i]
       IN fout' =
            IF m.len = 0
            THEN [fout EXCEPT !.matrix = Append(@, EmptyMat), !.i = @ + 1]
            ELSE IF m.dtype # "float32"
            THEN [fout EXCEPT !.float_data = "False", !.original_type = m.dtype,
                              !.original_device = m.device,
                              !.matrix = Append(@, [m EXCEPT !.dtype = promote_dtype(m.dtype)]),
                              !.i = @ + 1]
            ELSE [fout EXCEPT !.float_data = "True", !.matrix = Append(@, m), !.i = @ + 1]
    /\ UNCHANGED <<fin, stepVars>>

\* lines 261-267 and 290: the head of the second loop
OrthNextMatrix ==
    /\ fin.fn = "get_orthogonal_matrix"
    /\ \/ /\ fout.pc = "promote" /\ fout.i > Len(fin.mat)
          /\ fout' = [fout EXCEPT !.pc = "decompose", !.i = 1]
       \/ /\ fout.pc = "decompose" /\ fout.i > Len(fout.matrix)
          /\ fout' = [fout EXCEPT !.pc = "returned"]
       \/ /\ fout.pc = "decompose" /\ fout.i <= Len(fout.matrix)
          /\ LET m == fout.matrix[fout.i]
             IN fout' =
                  IF m.len = 0
                  THEN [fout EXCEPT !.final = Append(@, EmptyMat), !.i = @ + 1]
                  ELSE [fout EXCEPT !.pc = "attempt", !.m = m, !.device = m.device,
                                    !.dtype = m.dtype, !.k = 1]
    /\ UNCHANGED <<fin, stepVars>>

\* lines 268-281: one attempt of the fallback chain
OrthAttempt ==
    /\ fin.fn = "get_orthogonal_matrix" /\ fout.pc = "attempt"
    /\ \E outcome \in AttemptOutcomes :
          LET m == To(fout.m, Modifiers[fout.k])
              entry == [i |-> fout.i, dtype |-> m.dtype, device |-> m.device,
                        outcome |-> outcome]
          IN fout' =
               IF outcome = "ok"
               THEN [fout EXCEPT !.m = m, !.log = Append(@, entry), !.pc = "finish",
                                 !.Q = [m EXCEPT !.device = fout.device, !.dtype = fout.dtype]]
               ELSE IF fout.k < Len(Modifiers)
               THEN [fout EXCEPT !.m = m, !.log = Append(@, entry), !.k = @ + 1]
               ELSE [fout EXCEPT !.m = m, !.log = Append(@, entry), !.pc = "raised",
                                 !.err = "RuntimeError: Failed to compute eigenvalues."]
    /\ UNCHANGED <<fin, stepVars>>

\* lines 283-288: the result flipped, converted and appended
OrthFinish ==
    /\ fin.fn = "get_orthogonal_matrix" /\ fout.pc = "finish"
    /\ LET Q == IF fout.float_data = "False"
                THEN [fout.Q EXCEPT !.device = fout.original_device,
                                    !.dtype = fout.original_type]
                ELSE fout.Q
       IN fout' = [fout EXCEPT !.final = Append(@, Q), !.i = @ + 1, !.pc = "decompose"]
    /\ UNCHANGED <<fin, stepVars>>

NextOrth ==
    \/ OrthPromote
    \/ OrthNextMatrix
    \/ OrthAttempt
    \/ OrthFinish

SpecOrth == InitOrth /\ [][NextOrth]_vars

\* the loops of get_orthogonal_matrix run without outside scheduling
SpecOrthFair == SpecOrth /\ WF_vars(NextOrth)


(***************************************************************************)
(* Helpers of the optimization step                                        *)
(***************************************************************************)
\* division rounding toward zero
DivT(a, b) == IF a >= 0 THEN a \div b ELSE -((-a) \div b)

RECURSIVE Pow(_, _)
Pow(x, n) == IF n = 0 THEN 1 ELSE x * Pow(x, n - 1)

\* the n-th root of x, rounded down
IRoot(x, n) == CHOOSE r \in 0..x : Pow(r, n) <= x /\ Pow(r + 1, n) > x

Sign(x) == IF x < 0 THEN -1 ELSE IF x > 0 THEN 1 ELSE 0

\* utils.py warmup
warmup(lr, step, warmup_steps) ==
    IF step >= warmup_steps THEN lr ELSE DivT(lr * step, warmup_steps)

\* torch.zeros_like(g)
ZerosLike(g) == Full(g.shape, 0)

\* torch.empty_like(q): memory that was never written; u is what it happens to hold
EmptyLike(q, u) == Full(q.shape, u)

\* torch.triu_indices(n, n): the positions on and above the diagonal, row by row
TriuOrd(n, i, j) == SumSeq([r \in 1..(i - 1) |-> n - r + 1]) + (j - i) + 1

TriuCount(n) == (n * (n + 1)) \div 2

TriuIndex(n, k) == CHOOSE ix \in Idx(<<n, n>>) : ix[1] <= ix[2] /\ TriuOrd(n, ix[1], ix[2]) = k

\* triu_to_line: a 2-D factor is stored as its shape and the line of its upper triangle
PackFactor(q) ==
    IF Ndim(q) < 2 THEN [tri |-> FALSE, shape |-> <<>>, line |-> q]
    ELSE [tri |-> TRUE, shape |-> q.shape,
          line |-> [shape |-> <<TriuCount(q.shape[1])>>,
                    data |-> [ix \in Idx(<<TriuCount(q.shape[1])>>) |->
                                 q.data[TriuIndex(q.shape[1], ix[1])]]]]

triu_to_line(Q) == [k \in 1..Len(Q) |-> PackFactor(Q[k])]

\* line_to_triu: zeros with the line written on and above the diagonal
UnpackFactor(item) ==
    IF ~item.tri THEN item.line
    ELSE [shape |-> item.shape,
          data |-> [ix \in Idx(item.shape) |->
                       IF ix[1] <= ix[2]
                       THEN item.line.data[<<TriuOrd(item.shape[1], ix[1], ix[2])>>]
                       ELSE 0]]

line_to_triu(Q_line) == [k \in 1..Len(Q_line) |-> UnpackFactor(Q_line[k])]

\* line 99: state['Q'] = triu_to_line(Q) if store_triu_as_line else Q
StoreQ(Q, store_triu_as_line) ==
    IF store_triu_as_line THEN [line |-> TRUE, items |-> triu_to_line(Q)]
    ELSE [line |-> FALSE, items |-> Q]

\* line 132: q = line_to_triu(q_orig) if store_triu_as_line else q_orig
LoadQ(q_orig) == IF q_orig.line THEN line_to_triu(q_orig.items) ELSE q_orig.items

\* q.norm(float("inf")): the largest absolute entry
InfNorm(q) ==
    LET S == {Abs(q.data[ix]) : ix \in Idx(q.shape)}
    IN IF S = {} THEN 0 ELSE CHOOSE m \in S : \A x \in S : x <= m

Scale(q, num, den) ==
    [shape |-> q.shape, data |-> [ix \in Idx(q.shape) |-> DivT(q.data[ix] * num, den)]]

\* utils.py psgd_balance_Q: every factor times geometric_mean / its norm
psgd_balance_Q(Q_in) ==
    LET norms == [k \in 1..Len(Q_in) |-> InfNorm(Q_in[k])]
        geometric_mean == IRoot(ProdSeq(norms), Len(Q_in))
    IN [k \in 1..Len(Q_in) |->
           IF norms[k] = 0 THEN Q_in[k] ELSE Scale(Q_in[k], geometric_mean, norms[k])]

\* a faulty Balances: the random draw is ignored
Balances_EveryRefresh(upd, draw) == upd

\* utils.py PSGDBase.balance for one (g, q) pair; draw is the value of rng.random()
Balances(upd, draw) == upd /\ ~(draw > BalanceProb)

balance(upd, draw, g, Q) ==
    IF ~Balances(upd, draw) THEN Q
    ELSE IF Ndim(g) > 1 THEN psgd_balance_Q(Q) ELSE Q

\* a faulty Triu: the lower triangle is kept
Triu_Keep(m) == m

\* torch.triu(term1)
Triu(m) ==
    [shape |-> m.shape,
     data |-> [ix \in Idx(m.shape) |-> IF ix[1] <= ix[2] THEN m.data[ix] ELSE 0]]

\* utils.py psgd_update_precond, lines 607-613, for one factor.  term1 / norm is the
\* whitening residual of the probe V and the gradient; its entries are within [-1, 1]
\* before the step size precond_lr is applied, and t is the value they take here;
\* psgd_update_precond takes one t per factor.
UpdateFactor(q, t) ==
    IF Ndim(q) < 2
    THEN [shape |-> q.shape,
          data |-> [ix \in Idx(q.shape) |-> q.data[ix] - DivT(t * q.data[ix], PrecondLrInv)]]
    ELSE LET term1 == Triu(Full(q.shape, t))
             prod == MatMul(term1, q)
         IN [shape |-> q.shape,
             data |-> [ix \in Idx(q.shape) |-> q.data[ix] - DivT(prod.data[ix], PrecondLrInv)]]

psgd_update_precond(Q, t) == [k \in 1..Len(Q) |-> UpdateFactor(Q[k], t[k])]

\* the trust-region soft clip of one entry: the identity near zero, and beyond the knee
\* 0.9 * 1.5 the slow growth of the log1p term; odd and monotone
ClipEntry(x) ==
    IF Abs(x) <= ClipKnee THEN x
    ELSE Sign(x) * (ClipKnee + (Abs(x) - ClipKnee) \div 16)

ClipTensor(g) == [shape |-> g.shape, data |-> [ix \in Idx(g.shape) |-> ClipEntry(g.data[ix])]]

\* utils.py trust_region_clip_: clips the tensors of grad in place and returns nothing
trust_region_clip_(grad) == [inplace |-> [k \in 1..Len(grad) |-> ClipTensor(grad[k])],
                             returned |-> NoVal]

\* a clip function of the caller that returns the list it clipped
custom_clip(grad) == [inplace |-> [k \in 1..Len(grad) |-> ClipTensor(grad[k])],
                      returned |-> [list |-> [k \in 1..Len(grad) |-> ClipTensor(grad[k])]]]

\* utils.py update_param_ for one parameter; lr and decay in thousandths, the
\* parameter in thousandths of a gradient unit
UpdateParam(p, u, lr, decay) ==
    LET decayed == IF decay > 0
                   THEN [ix \in Idx(p.shape) |->
                            p.data[ix] - DivT(p.data[ix] * decay * lr, Milli * Milli)]
                   ELSE p.data
    IN [shape |-> p.shape, data |-> [ix \in Idx(p.shape) |-> decayed[ix] + lr * u.data[ix]]]

\* torch._foreach_lerp_(exp_avg, grad, (1 - beta) / (1 - beta ** step)), beta in tenths
LerpWeightNum(beta, step) == (BetaOne - beta) * Pow(BetaOne, step - 1)

LerpWeightDen(beta, step) == Pow(BetaOne, step) - Pow(beta, step)

Lerp(ea, g, beta, step) ==
    [shape |-> ea.shape,
     data |-> [ix \in Idx(ea.shape) |->
                  ea.data[ix] + DivT((g.data[ix] - ea.data[ix]) * LerpWeightNum(beta, step),
                                     LerpWeightDen(beta, step))]]


(***************************************************************************)
(* The optimizer: construction and _step                                   *)
(*                                                                         *)
(* The two source files disagree on three signatures (PSGDBase.__init__,   *)
(* balance, do_update: the caller passes foreach, omits do_update and      *)
(* passes the original Q and store_triu_as_line).  Each call is modelled   *)
(* by the callee's body with the caller's arguments bound by meaning; the  *)
(* write-back of the updated Q into state['Q'] follows the caller.         *)
(* q_dtype is float32, for which promote returns its argument.             *)
(***************************************************************************)
\* parameter lists of the group: one shape per parameter
ParamGroups ==
    {<< <<2, 2>>, <<2>> >>,
     << <<1, 2>>, <<2>> >>,
     << <<2, 2>>, [i \in 1..(MaxLetters + 1) |-> 1] >>,
     << <<>>, <<2>> >>}

\* values of rng.random(), in millionths
RngVals == {5000, 750000}

\* what uninitialised memory holds: the same value in every entry
UninitVals == {0, QOne * QOne}

\* the normalised residual of a preconditioner update
TermVals == {-1, 1}

\* one residual per factor of a parameter with n factors: the same sign for every
\* factor, or signs alternating from factor to factor
TermLists(n) ==
    {[k \in 1..n |-> v] : v \in TermVals} \cup {[k \in 1..n |-> IF k % 2 = 1 THEN -1 ELSE 1]}

\* the remaining constructor arguments, varied together
Profiles ==
    {[update_prob |-> [kind |-> "schedule", p |-> 0], momentum_into_precond_update |-> TRUE,
      store_triu_as_line |-> TRUE, clip_fn |-> "trust_region_clip_"],
     [update_prob |-> [kind |-> "const", p |-> HalfProb], momentum_into_precond_update |-> FALSE,
      store_triu_as_line |-> FALSE, clip_fn |-> "custom"],
     [update_prob |-> [kind |-> "const", p |-> HalfProb], momentum_into_precond_update |-> TRUE,
      store_triu_as_line |-> TRUE, clip_fn |-> "custom"]}

\* lr and weight_decay in thousandths, beta in tenths
CtorArgs ==
    [lr : {-1, 1}, beta : {9, BetaOne}, weight_decay : {-1, 0},
     memory_save_mode : ValidModes \cup {"bogus"},
     profile : Profiles, shapes : ParamGroups]

NumParams == Len(cfg.shapes)

EmptyState == [exp_avg |-> NoVal, exprs |-> NoVal, Q |-> NoVal, Q_cache |-> NoVal,
               cache_expr |-> NoVal]

\* a gradient of a shape: entries that differ along every axis, scaled by v
GradTensor(shape, v) ==
    [shape |-> shape,
     data |-> [ix \in Idx(shape) |->
                  GradUnit * v * (1 + SumSeq([j \in 1..Len(ix) |-> (ix[j] - 1) * j]))]]

Init ==
    /\ pc = "new" /\ cfg = NoVal /\ err = NoErr
    /\ prob_step = 0 /\ group_step = 0 /\ do_update = FALSE
    /\ calls = 0 /\ rng_calls = 0 /\ sched_calls = 0 /\ decisions = 0
    /\ grads = <<>> /\ pdata = <<>> /\ state = <<>> /\ vals = <<>>
    /\ loop_i = 0 /\ new = NoVal /\ grad_list = NoVal /\ committed = NoVal
    /\ trace = <<>> /\ engine = NoVal
    /\ fin = NoVal /\ fout = NoVal

\* lines 44-49: the checks of __init__, in order
CtorError(args) ==
    IF ~(0 <= args.lr) THEN "ValueError: Invalid learning rate"
    ELSE IF ~(0 <= args.beta /\ args.beta < BetaOne) THEN "ValueError: Invalid beta parameter"
    ELSE IF ~(0 <= args.weight_decay) THEN "ValueError: Invalid weight_decay value"
    ELSE NoErr

\* __init__ (lines 39-68)
Construct ==
    /\ pc = "new"
    /\ \E args \in CtorArgs :
        /\ cfg' = args
        /\ err' = CtorError(args)
        /\ IF CtorError(args) # NoErr
           THEN /\ pc' = "failed"
                /\ UNCHANGED <<grads, pdata, state>>
           ELSE /\ pc' = "idle"
                /\ grads' = [p \in 1..Len(args.shapes) |-> NoVal]
                /\ pdata' = [p \in 1..Len(args.shapes) |-> Full(args.shapes[p], 0)]
                /\ state' = [p \in 1..Len(args.shapes) |-> EmptyState]
    /\ prob_step' = 0
    /\ group_step' = 0
    /\ UNCHANGED <<do_update, calls, rng_calls, sched_calls, decisions, vals, loop_i, new,
                   grad_list, committed, trace, engine,
                   fin, fout>>

\* the training loop's backward pass: it leaves a gradient on some parameters
Backward ==
    /\ pc = "idle"
    /\ calls < MaxCalls
    /\ \E S \in SUBSET (1..NumParams) :
        grads' = [p \in 1..NumParams |->
                     IF p \in S THEN GradTensor(cfg.shapes[p], calls + 1) ELSE NoVal]
    /\ pc' = "ready"
    /\ UNCHANGED <<cfg, err, prob_step, group_step, do_update, calls, rng_calls, sched_calls,
                   decisions, pdata, state, vals, loop_i, new, grad_list, committed, trace,
                   engine,
                   fin, fout>>

\* a faulty ProbStepAfter: the counter advances twice
ProbStepAfter_Twice(n) == n + 2

\* a faulty ProbStepAfter: the counter wraps around
ProbStepAfter_Wrap(n) == (n + 1) % 2

\* line 76: self._prob_step += 1
ProbStepAfter(n) == n + 1

\* line 118: group["step"] += 1
GroupStepAfter(n) == n + 1

\* lines 72-76: the refresh decision of the step
StepBegin ==
    /\ pc = "ready"
    /\ \E draw \in RngVals :
        LET update_prob == IF cfg.profile.update_prob.kind = "schedule"
                           THEN DefaultSchedule(prob_step)
                           ELSE cfg.profile.update_prob.p
        IN do_update' = (draw < update_prob)
    /\ sched_calls' = (IF cfg.profile.update_prob.kind = "schedule" THEN 1 ELSE 0)
    /\ decisions' = 1
    /\ rng_calls' = rng_calls + 1
    /\ prob_step' = ProbStepAfter(prob_step)
    /\ calls' = calls + 1
    /\ err' = NoErr
    /\ vals' = <<>> /\ loop_i' = 1 /\ new' = NoVal /\ grad_list' = NoVal
    /\ trace' = << <<"Decision", 0>> >>
    /\ pc' = "gather"
    /\ UNCHANGED <<cfg, group_step, grads, pdata, state, committed, engine,
                   fin, fout>>

\* lines 95-108: the state of a parameter seen for the first time; u is what the
\* uninitialised Q_cache buffers hold, head the outcome of the sort.  The momentum buffer is stored before
\* init_Q_exprs runs, so it stays when init_Q_exprs raises.
InitState(st, g, shape, u, head) ==
    LET r == init_Q_exprs(shape, QOne, MaxSizeTriangular, MinNdimTriangular,
                          cfg.memory_save_mode, head)
    IN IF r.err # NoErr
       THEN [err |-> r.err, st |-> [st EXCEPT !.exp_avg = ZerosLike(g)]]
       ELSE [err |-> NoErr,
             st |-> [exp_avg |-> ZerosLike(g),
                     exprs |-> r.exprs,
                     Q |-> StoreQ(r.Q, cfg.profile.store_triu_as_line),
                     Q_cache |-> [items |-> [k \in 1..Len(r.Q) |-> EmptyLike(r.Q[k], u)]],
                     cache_expr |-> CacheExpr(r.Q, g.shape)]]

\* lines 92-110, one iteration: split_p_and_g_in_group skips a parameter without a
\* gradient and takes the gradient off the parameter it yields
GatherParam ==
    /\ pc = "gather"
    /\ loop_i <= NumParams
    /\ IF grads[loop_i] = NoVal
       THEN /\ loop_i' = loop_i + 1
            /\ UNCHANGED <<pc, err, grads, state, vals, trace>>
       ELSE /\ grads' = [grads EXCEPT ![loop_i] = NoVal]
            /\ IF state[loop_i].Q # NoVal
               THEN /\ vals' = Append(vals, [p |-> loop_i, g |-> grads[loop_i]])
                    /\ loop_i' = loop_i + 1
                    /\ UNCHANGED <<pc, err, state, trace>>
               ELSE \E u \in UninitVals,
                       head \in SortHeads(cfg.shapes[loop_i], cfg.memory_save_mode) :
                        LET r == InitState(state[loop_i], grads[loop_i],
                                           cfg.shapes[loop_i], u, head)
                        IN /\ state' = [state EXCEPT ![loop_i] = r.st]
                           /\ err' = r.err
                           /\ trace' = Append(trace, <<"Init", loop_i>>)
                           /\ IF r.err # NoErr
                              THEN /\ pc' = "idle"
                                   /\ UNCHANGED <<vals, loop_i>>
                              ELSE /\ vals' = Append(vals, [p |-> loop_i, g |-> grads[loop_i]])
                                   /\ loop_i' = loop_i + 1
                                   /\ UNCHANGED pc
    /\ UNCHANGED <<cfg, prob_step, group_step, do_update, calls, rng_calls, sched_calls,
                   decisions, pdata, new, grad_list, committed, engine,
                   fin, fout>>

\* a faulty ReturnsEarly: the step goes on without gradients
ReturnsEarly_Never(v) == FALSE

\* line 112: if not vals
ReturnsEarly(v) == v = <<>>

\* lines 112-113: no parameter carried a gradient
ReturnEmpty ==
    /\ pc = "gather"
    /\ loop_i > NumParams
    /\ ReturnsEarly(vals)
    /\ pc' = "idle"
    /\ UNCHANGED <<cfg, err, prob_step, group_step, do_update, calls, rng_calls, sched_calls,
                   decisions, grads, pdata, state, vals, loop_i, new, grad_list, committed,
                   trace, engine,
                   fin, fout>>

\* lines 118-120: MomentumUpdate, batched over the gathered parameters
MomentumUpdate ==
    /\ pc = "gather"
    /\ loop_i > NumParams
    /\ ~ReturnsEarly(vals)
    /\ group_step' = GroupStepAfter(group_step)
    /\ state' = [p \in 1..NumParams |->
                    IF \E k \in 1..Len(vals) : vals[k].p = p
                    THEN LET k == CHOOSE k \in 1..Len(vals) : vals[k].p = p
                         IN [state[p] EXCEPT !.exp_avg =
                                Lerp(state[p].exp_avg, vals[k].g, cfg.beta,
                                     GroupStepAfter(group_step))]
                    ELSE state[p]]
    /\ loop_i' = 1
    /\ trace' = Append(trace, <<"MomentumUpdate", 0>>)
    /\ pc' = "cache_apply"
    /\ UNCHANGED <<cfg, err, prob_step, do_update, calls, rng_calls, sched_calls, decisions,
                   grads, pdata, vals, new, grad_list, committed, engine,
                   fin, fout>>

\* line 129: CacheApply of parameter loop_i; torch.einsum raises on an expression that
\* does not fit its operands
CacheApplyStep ==
    /\ pc = "cache_apply"
    /\ LET st == state[vals[loop_i].p]
           ops == st.Q_cache.items \o <<st.exp_avg>>
       IN IF EinsumOk(st.cache_expr, ops)
          THEN /\ new' = Einsum(st.cache_expr, ops)
               /\ pc' = (IF do_update THEN "refresh" ELSE "set_grad")
               /\ trace' = Append(trace, <<"CacheApply", vals[loop_i].p>>)
               /\ UNCHANGED err
          ELSE /\ err' = "RuntimeError: einsum"
               /\ pc' = "idle"
               /\ UNCHANGED <<new, trace>>
    /\ UNCHANGED <<cfg, prob_step, group_step, do_update, calls, rng_calls, sched_calls,
                   decisions, grads, pdata, state, vals, loop_i, grad_list, committed,
                   engine,
                   fin, fout>>

\* a faulty EngineGrad: the preconditioned gradient is handed to the update engine
EngineGrad_Preconditioned(momentum_into_precond_update, ea, g) == new

\* line 135: the gradient source handed to the update engine
EngineGrad(momentum_into_precond_update, ea, g) ==
    IF momentum_into_precond_update THEN ea ELSE g

\* lines 132-135: balance and the update engine on the factors of parameter loop_i,
\* written back into state['Q']
RefreshQ ==
    /\ pc = "refresh"
    /\ \E draw \in RngVals :
        LET p == vals[loop_i].p
            g == vals[loop_i].g
            q == LoadQ(state[p].Q)
            G == EngineGrad(cfg.profile.momentum_into_precond_update, state[p].exp_avg, g)
            balanced == balance(do_update, draw, g, q)
        IN \E t \in TermLists(Len(q)) :
            LET updated == psgd_update_precond(balanced, t)
            IN /\ state' = [state EXCEPT ![p].Q =
                                StoreQ(updated, cfg.profile.store_triu_as_line)]
               /\ engine' = [p |-> p, draw |-> draw, g |-> g, q |-> q,
                             balanced |-> balanced, G |-> G, updated |-> updated]
               /\ trace' = Append(trace, <<IF Balances(do_update, draw) THEN "BalanceUpdate"
                                           ELSE "Update", p>>)
    /\ rng_calls' = rng_calls + 1
    /\ pc' = "rebuild"
    /\ UNCHANGED <<cfg, err, prob_step, group_step, do_update, calls, sched_calls, decisions,
                   grads, pdata, vals, loop_i, new, grad_list, committed, fin, fout>>

\* lines 136-140: the cache of parameter loop_i rebuilt from the updated factors
RebuildCacheStep ==
    /\ pc = "rebuild"
    /\ LET p == vals[loop_i].p
       IN state' = [state EXCEPT ![p].Q_cache = [items |-> RebuildCache(LoadQ(state[p].Q))]]
    /\ trace' = Append(trace, <<"Rebuild", vals[loop_i].p>>)
    /\ pc' = "set_grad"
    /\ UNCHANGED <<cfg, err, prob_step, group_step, do_update, calls, rng_calls, sched_calls,
                   decisions, grads, pdata, vals, loop_i, new, grad_list, committed, engine,
                   fin, fout>>

\* a faulty LoopNext: the loop ends after its first parameter
LoopNext_Once(i, n) == "clip"

\* line 124: the loop over the gathered parameters goes on to parameter i + 1, and
\* to line 144 after the last of the n
LoopNext(i, n) == IF i = n THEN "clip" ELSE "cache_apply"

\* line 142: set_(g, new), and the loop goes on
SetGrad ==
    /\ pc = "set_grad"
    /\ vals' = [vals EXCEPT ![loop_i].g = new]
    /\ loop_i' = loop_i + 1
    /\ pc' = LoopNext(loop_i, Len(vals))
    /\ engine' = NoVal
    /\ UNCHANGED <<cfg, err, prob_step, group_step, do_update, calls, rng_calls, sched_calls,
                   decisions, grads, pdata, state, new, grad_list, committed, trace,
                   fin, fout>>

\* self.clip_fn (lines 53-54)
clip_fn(grad) ==
    IF cfg.profile.clip_fn = "trust_region_clip_" THEN trust_region_clip_(grad)
    ELSE custom_clip(grad)

\* line 144: grad_list = self.clip_fn(grad_list)
Clip ==
    /\ pc = "clip"
    /\ LET r == clip_fn([k \in 1..Len(vals) |-> vals[k].g])
       IN /\ vals' = [k \in 1..Len(vals) |-> [vals[k] EXCEPT !.g = r.inplace[k]]]
          /\ grad_list' = r.returned
    /\ trace' = Append(trace, <<"Clip", 0>>)
    /\ pc' = "commit"
    /\ UNCHANGED <<cfg, err, prob_step, group_step, do_update, calls, rng_calls, sched_calls,
                   decisions, grads, pdata, state, loop_i, new, committed, engine,
                   fin, fout>>

\* lines 146-147: update_param_(p_list, grad_list, lr, weight_decay); zip over a
\* grad_list that is None raises before any parameter is written
Commit ==
    /\ pc = "commit"
    /\ LET lr == -warmup(cfg.lr, group_step, WarmupSteps)
       IN /\ committed' = [p_list |-> [k \in 1..Len(vals) |-> vals[k].p],
                           update |-> grad_list, lr |-> lr, decay |-> cfg.weight_decay]
          /\ IF grad_list = NoVal
             THEN /\ err' = "TypeError: NoneType is not iterable"
                  /\ UNCHANGED pdata
             ELSE /\ pdata' = [p \in 1..NumParams |->
                                  IF \E k \in 1..Len(vals) : vals[k].p = p
                                  THEN LET k == CHOOSE k \in 1..Len(vals) : vals[k].p = p
                                       IN UpdateParam(pdata[p], grad_list.list[k], lr,
                                                      cfg.weight_decay)
                                  ELSE pdata[p]]
                  /\ UNCHANGED err
    /\ trace' = Append(trace, <<"Commit", 0>>)
    /\ pc' = "idle"
    /\ UNCHANGED <<cfg, prob_step, group_step, do_update, calls, rng_calls, sched_calls,
                   decisions, grads, state, vals, loop_i, new, grad_list, engine,
                   fin, fout>>

Next ==
    \/ Construct
    \/ Backward
    \/ StepBegin
    \/ GatherParam
    \/ ReturnEmpty
    \/ MomentumUpdate
    \/ CacheApplyStep
    \/ RefreshQ
    \/ RebuildCacheStep
    \/ SetGrad
    \/ Clip
    \/ Commit

Spec == Init /\ [][Next]_vars


(***************************************************************************)
(* Claims about the optimizer                                              *)
(***************************************************************************)
CacheConsistent(p) == state[p].Q_cache.items = RebuildCache(LoadQ(state[p].Q))

\* C1: for every parameter that has state, Q_cache holds the squares of the current Q
\* (q^H q for a triangular factor, q*q for a diagonal one) in every state, except
\* between the Q update of that parameter and the cache rebuild that follows it.
C1_CacheConsistent ==
    \A p \in DOMAIN state :
        state[p].Q # NoVal
        => \/ pc = "rebuild" /\ vals[loop_i].p = p
           \/ CacheConsistent(p)

BadConfig(a) ==
    \/ a.lr < 0
    \/ ~(0 <= a.beta /\ a.beta < BetaOne)
    \/ a.weight_decay < 0
    \/ a.memory_save_mode \notin ValidModes

\* C2: a negative learning rate, a beta outside [0, 1), a negative weight decay or an
\* unknown memory-save policy makes construction fail, before any step runs and
\* before any per-parameter state exists.
C2_InvalidConfigAtConstruction ==
    (cfg # NoVal /\ BadConfig(cfg))
    => /\ pc = "failed"
       /\ err # NoErr
       /\ calls = 0
       /\ state = <<>>

\* C3: when the step fails on a parameter of rank above 13, that parameter's state
\* record holds no entry (no momentum buffer, Q, Q_cache or expressions).
C3_RankTooLargeNoState ==
    (pc = "idle" /\ err = "ValueError: Einstein runs out of letters")
    => /\ Len(cfg.shapes[loop_i]) > MaxLetters
       /\ state[loop_i] = EmptyState

\* C5: _prob_step advances by exactly one in every call of _step and by nothing else,
\* whatever the number of parameters carrying a gradient; a call draws one refresh
\* decision, evaluates the schedule once (when the probability is a schedule), and
\* the decision stays the same for every parameter until the call ends.
C5_OncePerStep ==
    /\ [](prob_step = calls /\ (calls > 0 => decisions = 1)
          /\ (calls > 0 /\ cfg.profile.update_prob.kind = "schedule" => sched_calls = 1))
    /\ [][prob_step' = (IF pc = "ready" THEN prob_step + 1 ELSE prob_step)]_vars
    /\ [][pc # "ready" => /\ do_update' = do_update
                          /\ decisions' = decisions
                          /\ sched_calls' = sched_calls]_vars

\* the second call of _step at work on two gathered parameters
C5_Witness ==
    /\ pc = "clip" /\ Len(vals) = 2
    /\ calls = 2 /\ prob_step = 2 /\ decisions = 1

\* C6: group['step'] and _prob_step never decrease.
C6_CountersMonotone ==
    [][prob_step' >= prob_step /\ group_step' >= group_step]_vars

C6_Witness == pc = "idle" /\ group_step = 2 /\ prob_step = 2

\* the preconditioned gradient the cache of parameter p gives now
PrecondFromCache(p) ==
    Einsum(state[p].cache_expr, state[p].Q_cache.items \o <<state[p].exp_avg>>)

\* the gradient the backward pass of the running step left on parameter p
RawGrad(p) == GradTensor(cfg.shapes[p], calls)

\* the parameters whose phase ph is in the trace of the running step
Done(ph) == {trace[i][2] : i \in {j \in 1..Len(trace) : trace[j][1] \in ph}}

\* position of the first entry of phase ph for parameter p in the trace, 0 if none
Pos(ph, p) ==
    LET at == {i \in 1..Len(trace) : trace[i][1] \in ph /\ trace[i][2] = p}
    IN IF at = {} THEN 0 ELSE CHOOSE i \in at : \A j \in at : i <= j

\* C11: within one step, for every parameter, CacheApply reads the parameter's
\* Q_cache and computes the preconditioned gradient before the refresh overwrites Q
\* or Q_cache: a refresh of p is preceded by the CacheApply of p; once Q is
\* overwritten the preconditioned gradient is still the one the untouched cache
\* gives; refresh and rebuild leave it alone and it is the value written into the
\* gradient; and the gradient source handed to the update engine is the momentum
\* buffer or the raw gradient (per flag), the raw gradient not yet being overwritten.
C11_CacheApplyBeforeRefresh ==
    /\ [](\A p \in Done({"Update", "BalanceUpdate", "Rebuild"}) :
             /\ Pos({"CacheApply"}, p) > 0
             /\ Pos({"CacheApply"}, p) < Pos({"Update", "BalanceUpdate", "Rebuild"}, p))
    /\ [](pc = "rebuild" =>
             LET p == vals[loop_i].p
             IN /\ new = PrecondFromCache(p)
                /\ vals[loop_i].g = RawGrad(p)
                /\ engine.p = p /\ engine.g = RawGrad(p)
                /\ engine.G = (IF cfg.profile.momentum_into_precond_update
                               THEN state[p].exp_avg ELSE RawGrad(p)))
    /\ [][(pc = "refresh" \/ pc = "rebuild") => (new' = new /\ vals' = vals)]_vars
    /\ [][pc = "set_grad" => vals'[loop_i].g = new]_vars

\* the second parameter of a refreshing step is about to receive a preconditioned
\* gradient that the rebuilt cache would no longer give
C11_Witness ==
    /\ pc = "set_grad" /\ do_update /\ loop_i = 2
    /\ vals[2].p \in Done({"Rebuild"})
    /\ new # PrecondFromCache(vals[2].p)
    /\ new # RawGrad(vals[2].p)

\* the place of a trace entry in the order MomentumUpdate, CacheApply,
\* ConditionalRefresh, Clip, Commit; 0 for the entries before MomentumUpdate
PhaseRank(ph) ==
    CASE ph = "MomentumUpdate" -> 1
      [] ph = "CacheApply" -> 2
      [] ph \in {"Update", "BalanceUpdate", "Rebuild"} -> 3
      [] ph = "Clip" -> 4
      [] ph = "Commit" -> 5
      [] OTHER -> 0

Refreshes == {"Update", "BalanceUpdate"}

\* the entries of the trace that belong to the loop of lines 124-142
LoopEntries == {i \in 1..Len(trace) : PhaseRank(trace[i][1]) \in {2, 3}}

\* C12 as stated: the phases are strictly ordered across the whole group, every
\* CacheApply before any ConditionalRefresh included.
C12_Original ==
    \A i, j \in 1..Len(trace) :
        (PhaseRank(trace[i][1]) > 0 /\ PhaseRank(trace[i][1]) < PhaseRank(trace[j][1]))
            => i < j

\* C12, amended: MomentumUpdate for the whole group precedes every CacheApply and
\* refresh; the parameters are then taken one at a time in parameter order, each
\* with its CacheApply, then (on a refreshing step) its refresh, then its rebuild;
\* Clip follows the last parameter's phases and Commit follows Clip.
C12_PhaseOrder ==
    /\ \A i \in 1..Len(trace) : \A j \in LoopEntries :
           /\ trace[i][1] = "MomentumUpdate" => i < j
           /\ trace[i][1] \in {"Clip", "Commit"} => j < i
    /\ \A i, j \in 1..Len(trace) : (trace[i][1] = "Clip" /\ trace[j][1] = "Commit") => i < j
    /\ \A i, j \in LoopEntries :
           /\ trace[i][2] < trace[j][2] => i < j
           /\ (trace[i][2] = trace[j][2] /\ i < j) =>
                  \/ (trace[i][1] = "CacheApply" /\ trace[j][1] \in Refreshes)
                  \/ (trace[i][1] = "CacheApply" /\ trace[j][1] = "Rebuild")
                  \/ (trace[i][1] \in Refreshes /\ trace[j][1] = "Rebuild")
    /\ pc \in {"clip", "commit"} =>
           \A k \in 1..Len(vals) :
               /\ vals[k].p \in Done({"CacheApply"})
               /\ do_update => (vals[k].p \in Done(Refreshes) /\ vals[k].p \in Done({"Rebuild"}))

\* a refreshing step over two parameters has committed, and the first parameter
\* was refreshed before the CacheApply of the second
C12_Witness ==
    /\ pc = "idle" /\ Len(vals) = 2 /\ do_update
    /\ Pos({"Commit"}, 0) > 0
    /\ Pos(Refreshes, vals[1].p) > 0
    /\ Pos(Refreshes, vals[1].p) < Pos({"CacheApply"}, vals[2].p)
    /\ Pos({"Rebuild"}, vals[2].p) > 0

\* C13: when Commit has run, update_param_ has received the parameters of the step
\* and, one per parameter in parameter order, their preconditioned and clipped
\* gradients as produced by the configured clip function (trust_region_clip_
\* included), with the negated warmed-up learning rate and the weight decay, and no
\* error was raised.
C13_CommitReceivesClipped ==
    (Len(trace) > 0 /\ trace[Len(trace)][1] = "Commit") =>
        /\ err = NoErr
        /\ committed.p_list = [k \in 1..Len(vals) |-> vals[k].p]
        /\ committed.update # NoVal
        /\ committed.update.list = [k \in 1..Len(vals) |-> vals[k].g]
        /\ committed.update.list[Len(vals)] = ClipTensor(new)
        /\ committed.lr = -warmup(cfg.lr, group_step, WarmupSteps)
        /\ committed.decay = cfg.weight_decay

\* C14: balancing is gated by both conditions.  The factors handed to the update
\* engine differ from the stored ones only on a step whose refresh decision is true
\* and whose further draw is within the 1%, and they are then the balanced
\* factors; with a draw above 1% they are the stored factors.  On a step whose
\* decision is false no existing factor of any parameter changes.
C14_BalanceGated ==
    /\ [](pc = "rebuild" =>
             /\ engine.balanced # engine.q =>
                    /\ do_update /\ engine.draw <= BalanceProb
                    /\ Ndim(engine.g) > 1
                    /\ engine.balanced = psgd_balance_Q(engine.q)
             /\ engine.draw > BalanceProb => engine.balanced = engine.q)
    /\ [][~do_update' =>
             \A p \in DOMAIN state :
                 (p \in DOMAIN state' /\ state[p].Q # NoVal) => state'[p].Q = state[p].Q]_vars

\* a refresh whose draw was within the 1% has rescaled the factors of a matrix
\* parameter whose norms differed
C14_Witness ==
    /\ pc = "rebuild" /\ do_update /\ engine.draw <= BalanceProb
    /\ engine.balanced # engine.q
    /\ \E k \in 1..Len(engine.q) : InfNorm(engine.balanced[k]) # InfNorm(engine.q[k])

\* a step whose decision was false has run through to Commit on a parameter that
\* already had its factors
C14_WitnessNoRefresh ==
    /\ pc = "idle" /\ ~do_update /\ calls = 2
    /\ Pos({"Commit"}, 0) > 0 /\ Done({"Init"}) = {}

\* the factor list Q of parameter p has the kinds init_Q_exprs gave it: factor k is
\* 1-D of the length of axis k where exprA gives it one letter, and square of the
\* size of axis k where exprA gives it two
KeepsKinds(p, Q) ==
    /\ Len(Q) = Len(cfg.shapes[p])
    /\ \A k \in 1..Len(Q) :
           IF Len(state[p].exprs.A.ins[k]) = 1
           THEN IsDiagFactor(Q[k], cfg.shapes[p][k])
           ELSE IsTriFactor(Q[k], cfg.shapes[p][k])

\* every 2-D factor of Q is zero below the diagonal
UpperTriangular(Q) ==
    \A k \in 1..Len(Q) :
        Ndim(Q[k]) = 2 => \A ix \in Idx(Q[k].shape) : ix[1] > ix[2] => Q[k].data[ix] = 0

\* C15: across balance and update-engine calls every factor keeps its kind and
\* every triangular factor stays upper-triangular: this holds for the factors a
\* refresh reads, for the balanced factors, for the updated factors, and for the
\* stored factors of every parameter of positive rank in every state.
C15_KindsKept ==
    /\ pc = "rebuild" =>
           /\ KeepsKinds(engine.p, engine.q) /\ UpperTriangular(engine.q)
           /\ KeepsKinds(engine.p, engine.balanced) /\ UpperTriangular(engine.balanced)
           /\ KeepsKinds(engine.p, engine.updated) /\ UpperTriangular(engine.updated)
    /\ \A p \in DOMAIN state :
           (state[p].Q # NoVal /\ Len(cfg.shapes[p]) > 0) =>
               /\ KeepsKinds(p, LoadQ(state[p].Q))
               /\ UpperTriangular(LoadQ(state[p].Q))

\* in the second refreshing step a parameter with a triangular and a diagonal
\* factor has been balanced and updated, and the updated triangular factor has a
\* non-zero entry above the diagonal
C15_Witness ==
    /\ pc = "rebuild" /\ group_step = 2
    /\ engine.balanced # engine.q
    /\ \E k, l \in 1..Len(engine.updated) :
           /\ Ndim(engine.updated[k]) = 2 /\ Ndim(engine.updated[l]) = 1
           /\ engine.updated[k].data[<<1, 2>>] # 0

\* the attempts logged for entry i of mat
AttemptsOf(i) == SelectSeq(fout.log, LAMBDA e : e.i = i)

\* the attempts follow the chain: the promoted matrix as it is, then in double
\* precision, then in double precision on the CPU; each but the last one failed
FollowsChain(i) ==
    LET a == AttemptsOf(i)
        m == fout.matrix[i]
    IN /\ Len(a) <= 3
       /\ Len(a) >= 1 => (a[1].dtype = m.dtype /\ a[1].device = m.device)
       /\ Len(a) >= 2 => (a[2].dtype = "float64" /\ a[2].device = m.device)
       /\ Len(a) >= 3 => (a[3].dtype = "float64" /\ a[3].device = "cpu")
       /\ \A j \in 1..(Len(a) - 1) : a[j].outcome # "ok"

\* the call raised exactly when three attempts on one matrix failed
RaisedIffAllFail ==
    fout.err # NoErr <=>
        \E i \in 1..Len(fout.matrix) :
            Len(AttemptsOf(i)) = 3 /\ \A j \in 1..3 : AttemptsOf(i)[j].outcome # "ok"

\* C16, the attempts: for each non-empty matrix at most three attempts, in the order
\* original precision, double precision, CPU; a failed attempt leads to the next;
\* the fatal error is raised if and only if all three failed on one matrix.
C16_ChainOnly ==
    /\ \A i \in 1..Len(fout.matrix) : FollowsChain(i)
    /\ RaisedIffAllFail
    /\ \A i \in 1..Len(fout.final) :
           fin.mat[i].len # 0 =>
               (AttemptsOf(i) # <<>> /\ AttemptsOf(i)[Len(AttemptsOf(i))].outcome = "ok")

\* C16 as stated: the above, and the result returned for each non-empty matrix is
\* converted back to the device and dtype of that matrix.
C16_FallbackChain ==
    /\ C16_ChainOnly
    /\ \A i \in 1..Len(fout.final) :
           fin.mat[i].len # 0 =>
               (fout.final[i].dtype = fin.mat[i].dtype
                /\ fout.final[i].device = fin.mat[i].device)

\* the non-empty entries of mat share one dtype and one device
UniformMat ==
    \A i, j \in 1..Len(fin.mat) :
        (fin.mat[i].len # 0 /\ fin.mat[j].len # 0) =>
            (fin.mat[i].dtype = fin.mat[j].dtype /\ fin.mat[i].device = fin.mat[j].device)

\* the conversion back holds for lists whose matrices share dtype and device
C16_UniformConverted == UniformMat => C16_FallbackChain

\* every call returns or raises
C16_Terminates == <>(fout.pc \in {"returned", "raised"})

\* the step about to run, or running, found no parameter with a gradient
NoGradStep ==
    /\ pc \in {"ready", "gather"}
    /\ \A p \in DOMAIN grads : grads[p] = NoVal
    /\ pc = "gather" => vals = <<>>

\* C17: a step on a group in which no parameter carries a gradient leaves
\* group['step'], the optimizer state of every parameter and the parameters as
\* they are and returns; its head still advances _prob_step and draws from the
\* random source once; and group['step'] never exceeds _prob_step.
C17_EmptyStepFrame ==
    /\ [](group_step <= prob_step)
    /\ [][NoGradStep =>
             /\ state' = state /\ pdata' = pdata /\ group_step' = group_step
             /\ pc' \in {"gather", "idle"}
             /\ pc = "ready" => (prob_step' = prob_step + 1 /\ rng_calls' = rng_calls + 1)
             /\ pc = "gather" => (prob_step' = prob_step /\ rng_calls' = rng_calls)]_vars

\* the second step found no gradient on parameters that have their state from the
\* first, and has returned
C17_Witness ==
    /\ pc = "idle" /\ calls = 2 /\ vals = <<>> /\ err = NoErr
    /\ trace = << <<"Decision", 0>> >>
    /\ group_step = 1 /\ prob_step = 2 /\ rng_calls >= 2
    /\ \A p \in DOMAIN state : state[p].Q # NoVal

====
